---- MODULE Spec2Model ----
(***************************************************************************)
(* The MCP transport/session layer of examples/mcp_client.py (MCPClient,   *)
(* MCPManager) and the tools/call dispatch of the tool servers             *)
(* (mcp_servers/*/server.py: call_tool), as a state machine.               *)
(*                                                                         *)
(* Strings are sequences of characters, so that "+", "in" and split are    *)
(* computed, not assumed.  A fixed text of the source (a literal of an     *)
(* f-string) is one element of such a sequence.                            *)
(***************************************************************************)
EXTENDS Integers, Sequences, FiniteSets, TLC

(***************************************************************************)
(* Bounds of the model                                                     *)
(***************************************************************************)
\* the request counter of a session is capped here (guards of the writes)
MaxId == 4

\* the MCPClient objects of the model; client i is built from configs[i]
Clients == {1, 2}

\* server names a caller may put in a MCPServerConfig
ServerNames == { <<"a">>, <<"a", "_">> }

\* tool names a server may declare and a caller may ask for
ToolNames == { <<"t">>, <<"_", "t">> }

\* a server declares at most this many tools
MaxTools == 2

\* str(e) of the exceptions a tool handler may raise, and the error
\* messages of a JSON-RPC error response
Msgs == { <<"m">> }

\* the text a tool handler returns
Texts == { <<"r">> }

\* the arguments objects of a tools/call on one client
Arguments == { "{}", "{k: v}" }

\* the arguments object of the calls made through the manager
MgrArguments == { "{k: v}" }

\* what the user types at the prompt, message after message; then the input
\* ends
Inputs == << <<"p">>, <<"q">> >>

\* a turn has at most this many tool rounds
MaxRounds == 2

\* the content array of a tools/call result has at most this many blocks
MaxContent == 3

\* the items the code under a tool handler returns
MaxCount == 1

\* a server of its own accord leaves at most this many lines unread
MaxUnread == 1

\* the writes the stderr pipe takes before it is full
PipeCapacity == 2

(***************************************************************************)
(* Strings                                                                 *)
(***************************************************************************)
\* "__", the separator of a full tool name
SEP == <<"_", "_">>

\* sub in s, for Python's `in` on strings
Contains(s, sub) ==
    \E i \in 0..(Len(s) - Len(sub)) : SubSeq(s, i + 1, i + Len(sub)) = sub

\* "\n".join(texts)
RECURSIVE JoinNL(_)
JoinNL(texts) ==
    IF texts = <<>> THEN <<>>
    ELSE IF Len(texts) = 1 THEN texts[1]
    ELSE texts[1] \o <<"\n">> \o JoinNL(Tail(texts))

\* the elements of a sequence
Range(s) == { s[i] : i \in 1..Len(s) }

\* a sequence without repeated elements
NoDup(s) == \A i, j \in 1..Len(s) : i # j => s[i] # s[j]

\* the sequences of length <= n over S, without repeated elements
RECURSIVE DistinctSeqs(_, _)
DistinctSeqs(S, n) ==
    IF n = 0 THEN { <<>> }
    ELSE LET shorter == DistinctSeqs(S, n - 1)
         IN  shorter \cup
             UNION { { Append(s, x) : x \in S \ Range(s) } : s \in shorter }

\* the tool lists a server may declare (the keys of its handler table)
ToolLists == DistinctSeqs(ToolNames, MaxTools)

(***************************************************************************)
(* State                                                                   *)
(***************************************************************************)
VARIABLES
    configs,     \* MCPManager.configs: the server names, in order
    declared,    \* per server program: the tools it declares and handles
    clients,     \* MCPManager.clients: <<name, client>> pairs, insertion order
    mpc,         \* where the manager's caller is in start_all / a manager call
    process,     \* MCPClient.process: "None" or "Popen"
    request_id,  \* MCPClient._request_id
    tools,       \* MCPClient._tools: the cached tool names
    pend,        \* the _send_request (or start) a session's caller is inside
    child,       \* the child process: "none", "alive", "exited"; "closing"
                 \* (stdout closed, running), "blocked" (in a write to stderr)
    stdin,       \* messages written to the child and not yet read by it
    stdout,      \* lines written by the child and not yet read by the client
    stderr,      \* what the child wrote to its stderr pipe, which nobody read
    loop,        \* the session whose blocking call holds the event loop, or 0
    sent,        \* history: the ids _send_request put on its requests
    wrote,       \* history: what a session's child was sent, by first occurrence
    ev,          \* history: the operation that returned last, and how
    chat,        \* chatbot.py: the chat loop (messages, where the turn is)
    result       \* the result object MCPClient.call_tool extracts the text of

vars == << configs, declared, clients, mpc, process, request_id, tools, pend,
           child, stdin, stdout, stderr, loop, sent, wrote, ev, chat, result >>

\* the state of the sessions and of their children
sessVars == << process, request_id, tools, pend, child, stdin, stdout, stderr,
              loop, sent, wrote >>

\* the state of the manager
mgrVars == << clients, mpc >>

(***************************************************************************)
(* Messages                                                                *)
(***************************************************************************)
\* a JSON-RPC request (id > 0) or notification (id = 0) on the child's stdin
Msg(id, method, name, args) ==
    [id |-> id, method |-> method, name |-> name, args |-> args]

NoMsg == Msg(0, "none", <<>>, "{}")

\* TextContent(type="text", text=...)
TextContent(text) == [type |-> "text", text |-> text]

\* a line on the child's stdout. kind: "result", "error" or "garbage" (not
\* JSON). req and handler are history: the request the line answers, and
\* what the tool handler did ("none": no handler ran).
Line(id, kind, tls, content, msg, req, handler, hmsg) ==
    [id |-> id, kind |-> kind, tools |-> tls, content |-> content,
     msg |-> msg, req |-> req, handler |-> handler, hmsg |-> hmsg]

NoLine == Line(0, "none", <<>>, <<>>, <<>>, NoMsg, "none", <<>>)

\* no request in flight
NoReq == [id |-> 0, op |-> "none", method |-> "none", name |-> <<>>,
          args |-> "{}"]

\* the record of a returned operation
Ev(op, c, id, out, name, val, sig, pre, line) ==
    [op |-> op, c |-> c, id |-> id, out |-> out, name |-> name, val |-> val,
     sig |-> sig, pre |-> pre, line |-> line]

\* an operation is under way: nothing has returned since it began
Busy == Ev("busy", 0, 0, "none", <<>>, <<>>, {}, "None", NoLine)

NoEv == Ev("none", 0, 0, "none", <<>>, <<>>, {}, "None", NoLine)

\* an operation of client c that raised or returned without reading a line
Ret(op, c, id, out, name) ==
    Ev(op, c, id, out, name, <<>>, {}, process[c], NoLine)

(***************************************************************************)
(* The tool server: call_tool of mcp_servers/*/server.py                   *)
(***************************************************************************)
\* the items of str(list(...)) of a list of strings: 'x', 'y'
RECURSIVE ReprItems(_)
ReprItems(keys) ==
    IF keys = <<>> THEN <<>>
    ELSE <<"'">> \o keys[1] \o <<"'">>
         \o (IF Len(keys) > 1 THEN <<", ">> ELSE <<>>)
         \o ReprItems(Tail(keys))

\* str(list(tool_handlers.keys()))
ListRepr(keys) == <<"[">> \o ReprItems(keys) \o <<"]">>

\* f"Unknown tool: {name}. Available tools: {list(tool_handlers.keys())}"
UnknownToolText(name, handlers) ==
    <<"Unknown tool: ">> \o name \o <<". Available tools: ">>
    \o ListRepr(handlers)

\* f"Error executing tool {name}: {str(e)}"
ErrorText(name, msg) == <<"Error executing tool ">> \o name \o <<": ">> \o msg

\* what `await handler(arguments)` may do: return a text or raise
HandlerOutcomes ==
    { [kind |-> "returned", text |-> t] : t \in Texts } \cup
    { [kind |-> "raised", text |-> m] : m \in Msgs }

\* call_tool without its try/except: the handler's exception leaves call_tool
ServerCallToolNoCatch(handlers, name, h) ==
    IF name \notin Range(handlers)
    THEN [kind |-> "result",
          content |-> << TextContent(UnknownToolText(name, handlers)) >>,
          msg |-> <<>>, handler |-> "none", hmsg |-> <<>>]
    ELSE IF h.kind = "returned"
    THEN [kind |-> "result", content |-> << TextContent(h.text) >>,
          msg |-> <<>>, handler |-> "returned", hmsg |-> <<>>]
    ELSE [kind |-> "error", content |-> <<>>, msg |-> h.text,
          handler |-> "raised", hmsg |-> h.text]

\* call_tool that raises for a name without handler instead of returning
\* the text
ServerCallToolUnknownRaises(handlers, name, h) ==
    IF name \notin Range(handlers)
    THEN [kind |-> "error", content |-> <<>>,
          msg |-> UnknownToolText(name, handlers), handler |-> "none",
          hmsg |-> <<>>]
    ELSE IF h.kind = "returned"
    THEN [kind |-> "result", content |-> << TextContent(h.text) >>,
          msg |-> <<>>, handler |-> "returned", hmsg |-> <<>>]
    ELSE [kind |-> "result",
          content |-> << TextContent(ErrorText(name, h.text)) >>,
          msg |-> <<>>, handler |-> "raised", hmsg |-> h.text]

\* call_tool(name, arguments) with handler table `handlers`, the handler
\* (if one is looked up) doing h. kind "result": the list[TextContent] it
\* returns, sent as the result of the request; kind "error": it raised.
ServerCallTool(handlers, name, h) ==
    IF name \notin Range(handlers)
    THEN [kind |-> "result",
          content |-> << TextContent(UnknownToolText(name, handlers)) >>,
          msg |-> <<>>, handler |-> "none", hmsg |-> <<>>]
    ELSE IF h.kind = "returned"
    THEN [kind |-> "result", content |-> << TextContent(h.text) >>,
          msg |-> <<>>, handler |-> "returned", hmsg |-> <<>>]
    ELSE [kind |-> "result",
          content |-> << TextContent(ErrorText(name, h.text)) >>,
          msg |-> <<>>, handler |-> "raised", hmsg |-> h.text]

\* the lines a server may write in answer to request m
\* (a tools/call is dispatched to call_tool; initialize and tools/list are
\* answered with a result, with an error, or with a line that is not JSON)
Answers(c, m) ==
    IF m.method = "tools/call"
    THEN { LET r == ServerCallTool(declared[c], m.name, h)
           IN  Line(m.id, r.kind, <<>>, r.content, r.msg, m, r.handler, r.hmsg)
           : h \in HandlerOutcomes }
    ELSE { Line(m.id, "garbage", <<>>, <<>>, <<>>, m, "none", <<>>) }
         \cup
         { Line(m.id, "error", <<>>, <<>>, e, m, "none", <<>>) : e \in Msgs }
         \cup
         { Line(m.id, "result",
                IF m.method = "tools/list" THEN declared[c] ELSE <<>>,
                <<>>, <<>>, m, "none", <<>>) }

\* the server reads one message: a notification is consumed, a request is
\* answered with one line
ChildHandle(c) ==
    /\ child[c] = "alive"
    /\ stdin[c] # <<>>
    /\ LET m == Head(stdin[c])
       IN  /\ stdin' = [stdin EXCEPT ![c] = Tail(@)]
           /\ IF m.id = 0
              THEN UNCHANGED stdout
              ELSE \E ln \in Answers(c, m) :
                       stdout' = [stdout EXCEPT ![c] = Append(@, ln)]
    /\ UNCHANGED << loop, stderr, chat, result, configs,
                    declared, clients, mpc, process, request_id,
                    tools, pend, child, sent, wrote, ev >>

\* the child process exits: its pipes are closed, what it had not read is lost
ChildExit(c) ==
    /\ child[c] = "alive"
    /\ child' = [child EXCEPT ![c] = "exited"]
    /\ stdin' = [stdin EXCEPT ![c] = <<>>]
    /\ UNCHANGED << loop, stderr, chat, result, configs,
                    declared, clients, mpc, process, request_id,
                    tools, pend, stdout, sent, wrote, ev >>

\* a server sends a message of its own (a notification): a line without id
\* and without result
ChildNotify(c) ==
    /\ child[c] = "alive"
    /\ Len(stdout[c]) < MaxUnread
    /\ stdout' = [stdout EXCEPT ![c] =
           Append(@, Line(0, "notification", <<>>, <<>>, <<>>, NoMsg, "none",
                          <<>>))]
    /\ UNCHANGED << loop, stderr, chat, result, configs, declared, clients,
                    mpc, process, request_id, tools, pend, child, stdin, sent,
                    wrote, ev >>

\* the server logs to stderr (logging.basicConfig, Console(stderr=True)): the
\* text goes into the pipe while it has room; on a full pipe the write blocks
ChildLog(c) ==
    /\ child[c] = "alive"
    /\ IF stderr[c] < PipeCapacity
       THEN /\ stderr' = [stderr EXCEPT ![c] = @ + 1]
            /\ UNCHANGED child
       ELSE /\ child' = [child EXCEPT ![c] = "blocked"]
            /\ UNCHANGED stderr
    /\ UNCHANGED << loop, chat, result, configs, declared, clients, mpc,
                    process, request_id, tools, pend, stdin, stdout, sent,
                    wrote, ev >>

\* the child closes its stdout and runs on, its stderr open
ChildCloseStdout(c) ==
    /\ child[c] = "alive"
    /\ child' = [child EXCEPT ![c] = "closing"]
    /\ UNCHANGED << loop, stderr, chat, result, configs, declared, clients,
                    mpc, process, request_id, tools, pend, stdin, stdout, sent,
                    wrote, ev >>

\* a child that had closed its stdout exits
ChildExitClosing(c) ==
    /\ child[c] = "closing"
    /\ child' = [child EXCEPT ![c] = "exited"]
    /\ stdin' = [stdin EXCEPT ![c] = <<>>]
    /\ UNCHANGED << loop, stderr, chat, result, configs, declared, clients,
                    mpc, process, request_id, tools, pend, stdout, sent, wrote,
                    ev >>

(***************************************************************************)
(* MCPClient                                                               *)
(***************************************************************************)
\* _next_id without its increment
NextIdStale(c) == request_id[c]

\* MCPClient._next_id: the incremented counter
NextId(c) == request_id[c] + 1

\* a write to the child's stdin succeeds while the child holds the pipe
PipeOpen(c) == child[c] \in { "alive", "closing", "blocked" }

\* the log of a session with event e: an event is logged when it first occurs
Note(log, e) == IF e \in Range(log) THEN log ELSE Append(log, e)

\* _send_request that takes the id before it looks at the process
SendRequestIdFirst(c, op, method, name, args) ==
    /\ request_id[c] < MaxId
    /\ request_id' = [request_id EXCEPT ![c] = NextId(c)]
    /\ sent' = [sent EXCEPT ![c] = Append(@, NextId(c))]
    /\ IF process[c] = "None"
       THEN /\ ev' = Ret(op, c, 0, "NotRunning", name)
            /\ pend' = [pend EXCEPT ![c] = NoReq]
            /\ UNCHANGED << stdin, wrote >>
       ELSE IF PipeOpen(c)
       THEN /\ stdin' = [stdin EXCEPT ![c] =
                   Append(@, Msg(NextId(c), method, name, args))]
            /\ pend' = [pend EXCEPT ![c] =
                   [id |-> NextId(c), op |-> op, method |-> method,
                    name |-> name, args |-> args]]
            /\ wrote' = [wrote EXCEPT ![c] = Note(@, method)]
            /\ ev' = Busy
       ELSE /\ ev' = Ret(op, c, NextId(c), "BrokenPipe", name)
            /\ pend' = [pend EXCEPT ![c] = NoReq]
            /\ UNCHANGED << stdin, wrote >>

\* MCPClient._send_request up to its await: the guard, the id, the write.
\* op is the operation of the client that sends the request.
SendRequest(c, op, method, name, args) ==
    IF process[c] = "None"
    THEN /\ ev' = Ret(op, c, 0, "NotRunning", name)
         /\ pend' = [pend EXCEPT ![c] = NoReq]
         /\ UNCHANGED << request_id, sent, stdin, wrote >>
    ELSE /\ request_id[c] < MaxId
         /\ request_id' = [request_id EXCEPT ![c] = NextId(c)]
         /\ sent' = [sent EXCEPT ![c] = Append(@, NextId(c))]
         /\ IF PipeOpen(c)
            THEN /\ stdin' = [stdin EXCEPT ![c] =
                        Append(@, Msg(NextId(c), method, name, args))]
                 /\ pend' = [pend EXCEPT ![c] =
                        [id |-> NextId(c), op |-> op, method |-> method,
                         name |-> name, args |-> args]]
                 /\ wrote' = [wrote EXCEPT ![c] = Note(@, method)]
                 /\ ev' = Busy
            ELSE /\ ev' = Ret(op, c, NextId(c), "BrokenPipe", name)
                 /\ pend' = [pend EXCEPT ![c] = NoReq]
                 /\ UNCHANGED << stdin, wrote >>

\* MCPClient.start up to _initialize: Popen raises, or the child runs
Start(c) ==
    /\ loop = 0
    /\ pend[c] = NoReq
    /\ process[c] = "None"
    /\ \/ /\ ev' = Ret("start", c, 0, "SpawnError", <<>>)
          /\ UNCHANGED << process, child, stdin, stdout, stderr, pend, wrote >>
       \/ /\ process' = [process EXCEPT ![c] = "Popen"]
          /\ child' = [child EXCEPT ![c] = "alive"]
          /\ stdin' = [stdin EXCEPT ![c] = <<>>]
          /\ stdout' = [stdout EXCEPT ![c] = <<>>]
          /\ stderr' = [stderr EXCEPT ![c] = 0]
          /\ wrote' = [wrote EXCEPT ![c] = <<>>]
          /\ pend' = [pend EXCEPT ![c] = [NoReq EXCEPT !.op = "start"]]
          /\ ev' = Busy
    /\ UNCHANGED << loop, chat, result, configs, declared, clients, mpc,
                    request_id, tools, sent >>

\* MCPClient._initialize, called by start: the initialize request
Initialize(c) ==
    /\ loop = 0
    /\ pend[c] = [NoReq EXCEPT !.op = "start"]
    /\ SendRequest(c, "start", "initialize", <<>>, "{}")
    /\ UNCHANGED << loop, stderr, chat, result, configs,
                    declared, clients, mpc, process, tools, child,
                    stdout >>

\* MCPClient.list_tools up to the await of its request
ListTools(c) ==
    /\ loop = 0
    /\ pend[c] = NoReq
    /\ SendRequest(c, "list_tools", "tools/list", <<>>, "{}")
    /\ UNCHANGED << loop, stderr, chat, result, configs,
                    declared, clients, mpc, process, tools, child,
                    stdout >>

\* MCPClient.call_tool up to the await of its request
CallTool(c, name, args) ==
    /\ loop = 0
    /\ pend[c] = NoReq
    /\ SendRequest(c, "call_tool", "tools/call", name, args)
    /\ UNCHANGED << loop, stderr, chat, result, configs,
                    declared, clients, mpc, process, tools, child,
                    stdout >>

\* MCPClient._send_notification: the guard and the write. log is the log of
\* the session when the notification is sent.
SendNotification(c, op, method, log) ==
    IF process[c] = "None"
    THEN /\ ev' = Ret(op, c, 0, "NotRunning", <<>>)
         /\ wrote' = [wrote EXCEPT ![c] = log]
         /\ UNCHANGED stdin
    ELSE IF PipeOpen(c)
    THEN /\ stdin' = [stdin EXCEPT ![c] = Append(@, Msg(0, method, <<>>, "{}"))]
         /\ wrote' = [wrote EXCEPT ![c] = Note(log, method)]
         /\ ev' = Ret(op, c, 0, "ok", <<>>)
    ELSE /\ ev' = Ret(op, c, 0, "BrokenPipe", <<>>)
         /\ wrote' = [wrote EXCEPT ![c] = log]
         /\ UNCHANGED stdin

\* a caller sends a notification of its own
Notify(c) ==
    /\ loop = 0
    /\ pend[c] = NoReq
    /\ Len(stdin[c]) < MaxId
    /\ SendNotification(c, "notify", "notifications/other", wrote[c])
    /\ UNCHANGED << loop, stderr, chat, result, configs,
                    declared, clients, mpc, process, request_id,
                    tools, pend, child, stdout, sent >>

\* [c.get("text", "") for c in content if c.get("type") == "text"]
RECURSIVE TextsOf(_)
TextsOf(content) ==
    IF content = <<>> THEN <<>>
    ELSE (IF content[1].type = "text" THEN << content[1].text >> ELSE <<>>)
         \o TextsOf(Tail(content))

\* str(result) of a result whose content is empty
StrResult(content) == << "{'content': []}" >>

\* the string MCPClient.call_tool makes of a result
CallToolText(content) ==
    IF content # <<>> THEN JoinNL(TextsOf(content)) ELSE StrResult(content)

\* what the caller of the request gets once _send_request has returned the
\* result in line ln: start sends the initialized notification, list_tools
\* caches the tools, call_tool returns the text
Continue(c, rq, ln) ==
    CASE rq.op = "start" ->
            /\ SendNotification(c, "start", "notifications/initialized",
                                Note(wrote[c], "initialize result"))
            /\ UNCHANGED tools
      [] rq.op = "list_tools" ->
            /\ tools' = [tools EXCEPT ![c] = ln.tools]
            /\ ev' = Ev("list_tools", c, rq.id, "ok", <<>>, <<>>, {},
                        process[c], ln)
            /\ UNCHANGED << stdin, wrote >>
      [] OTHER ->
            /\ ev' = Ev("call_tool", c, rq.id, "ok", rq.name,
                        CallToolText(ln.content), {}, process[c], ln)
            /\ UNCHANGED << stdin, tools, wrote >>

\* _send_request without its check of an empty line: json.loads("") raises
OnEndOfStreamUnchecked(c, rq) ==
    ev' = Ret(rq.op, c, rq.id, "JSONDecodeError", rq.name)

\* readline returned "": stderr is read and RuntimeError("MCP server closed
\* connection...") is raised
OnEndOfStream(c, rq) == ev' = Ret(rq.op, c, rq.id, "Closed", rq.name)

\* the rest of MCPClient._send_request, after its await: a line was read,
\* or end-of-stream
ReadResponse(c) ==
    /\ loop = 0
    /\ pend[c].id # 0
    /\ pend' = [pend EXCEPT ![c] = NoReq]
    /\ \/ /\ stdout[c] # <<>>
          /\ stdout' = [stdout EXCEPT ![c] = Tail(@)]
          /\ LET ln == Head(stdout[c])
                 rq == pend[c]
             IN  IF ln.kind = "garbage"
                 THEN /\ ev' = Ev(rq.op, c, rq.id, "JSONDecodeError", rq.name,
                                  <<>>, {}, process[c], ln)
                      /\ UNCHANGED << stdin, tools, wrote >>
                 ELSE IF ln.kind = "error"
                 THEN /\ ev' = Ev(rq.op, c, rq.id, "McpError", rq.name,
                                  <<"MCP error: ">> \o ln.msg, {}, process[c],
                                  ln)
                      /\ UNCHANGED << stdin, tools, wrote >>
                 ELSE Continue(c, rq, ln)
       \/ /\ stdout[c] = <<>>
          /\ child[c] = "exited"
          /\ OnEndOfStream(c, pend[c])
          /\ UNCHANGED << stdin, stdout, tools, wrote >>
    /\ UNCHANGED << loop, stderr, chat, result, configs,
                    declared, clients, mpc, process, request_id,
                    child, sent >>

\* readline returned "" from a child that closed its stdout and runs on:
\* self.process.stderr.read() is called on the event loop and does not return
\* while the child holds its stderr
ReadStderr(c) ==
    /\ loop = 0
    /\ pend[c].id # 0
    /\ stdout[c] = <<>>
    /\ child[c] = "closing"
    /\ loop' = c
    /\ UNCHANGED << stderr, chat, result, configs, declared, clients, mpc,
                    process, request_id, tools, pend, child, stdin, stdout,
                    sent, wrote, ev >>

\* the child has exited: stderr.read() returns and the RuntimeError is raised
StderrRead(c) ==
    /\ loop = c
    /\ child[c] = "exited"
    /\ loop' = 0
    /\ pend' = [pend EXCEPT ![c] = NoReq]
    /\ OnEndOfStream(c, pend[c])
    /\ UNCHANGED << stderr, chat, result, configs, declared, clients, mpc,
                    process, request_id, tools, child, stdin, stdout, sent,
                    wrote >>

\* how stop may go for a process that is set: what terminate, wait and kill
\* do (out: "ok" when none of them raises), the signals sent, the child after
StopPaths(c) ==
    IF child[c] = "exited"
    THEN { [out |-> "ok", sig |-> {}, child |-> "exited"] }
    ELSE { [out |-> "ok", sig |-> {"TERM"}, child |-> "exited"],
           [out |-> "ok", sig |-> {"TERM", "KILL"}, child |-> "exited"],
           [out |-> "TerminateError", sig |-> {}, child |-> child[c]],
           [out |-> "WaitError", sig |-> {"TERM"}, child |-> child[c]],
           [out |-> "WaitError", sig |-> {"TERM"}, child |-> "exited"],
           [out |-> "KillError", sig |-> {"TERM"}, child |-> child[c]] }

\* stop without `if self.process`: None.terminate() raises
StopUnguarded(c) ==
    /\ loop = 0
    /\ pend[c] = NoReq
    /\ IF process[c] = "None"
       THEN /\ ev' = Ev("stop", c, 0, "AttributeError", <<>>, <<>>, {}, "None",
                        NoLine)
            /\ UNCHANGED << process, child, stdin >>
       ELSE \E path \in StopPaths(c) :
                /\ ev' = Ev("stop", c, 0, path.out, <<>>, <<>>, path.sig,
                            "Popen", NoLine)
                /\ process' = [process EXCEPT ![c] =
                       IF path.out = "ok" THEN "None" ELSE @]
                /\ child' = [child EXCEPT ![c] = path.child]
                /\ stdin' = [stdin EXCEPT ![c] =
                       IF path.child = "exited" THEN <<>> ELSE @]
    /\ UNCHANGED << loop, stderr, chat, result, configs,
                    declared, clients, mpc, request_id,
                    tools, pend, stdout, sent, wrote >>

\* MCPClient.stop
Stop(c) ==
    /\ loop = 0
    /\ pend[c] = NoReq
    /\ IF process[c] = "None"
       THEN /\ ev' = Ev("stop", c, 0, "ok", <<>>, <<>>, {}, "None", NoLine)
            /\ UNCHANGED << process, child, stdin >>
       ELSE \E path \in StopPaths(c) :
                /\ ev' = Ev("stop", c, 0, path.out, <<>>, <<>>, path.sig,
                            "Popen", NoLine)
                /\ process' = [process EXCEPT ![c] =
                       IF path.out = "ok" THEN "None" ELSE @]
                /\ child' = [child EXCEPT ![c] = path.child]
                /\ stdin' = [stdin EXCEPT ![c] =
                       IF path.child = "exited" THEN <<>> ELSE @]
    /\ UNCHANGED << loop, stderr, chat, result, configs,
                    declared, clients, mpc, request_id,
                    tools, pend, stdout, sent, wrote >>

(***************************************************************************)
(* MCPManager                                                              *)
(***************************************************************************)
\* str.split("__", 1) of a string that contains "__": the parts before and
\* after the leftmost "__"
HasSep(s) == Contains(s, SEP)

SepAt(s, i) == SubSeq(s, i, i + 1) = SEP

FirstSep(s) ==
    CHOOSE i \in 1..(Len(s) - 1) :
        SepAt(s, i) /\ \A j \in 1..(i - 1) : ~SepAt(s, j)

Split1(s) ==
    [server |-> SubSeq(s, 1, FirstSep(s) - 1),
     tool |-> SubSeq(s, FirstSep(s) + 2, Len(s))]

\* f"{name}__{tool.name}"
FullName(name, tool) == name \o SEP \o tool

\* the dict self.clients as the sequence of its items
DictKeys(d) == [i \in 1..Len(d) |-> d[i][1]]

DictHas(d, k) == \E i \in 1..Len(d) : d[i][1] = k

DictGet(d, k) == d[CHOOSE i \in 1..Len(d) : d[i][1] = k][2]

\* d[k] = v: a present key keeps its place
DictSet(d, k, v) ==
    IF DictHas(d, k)
    THEN [i \in 1..Len(d) |-> IF d[i][1] = k THEN << k, v >> ELSE d[i]]
    ELSE Append(d, << k, v >>)

\* the manager's caller is in no manager operation
MgrIdle == [op |-> "idle", i |-> 0, step |-> "none"]

\* the one task that drives the manager is inside no operation
Quiet ==
    /\ mpc = MgrIdle
    /\ loop = 0
    /\ \A c \in Clients : pend[c] = NoReq

\* MCPManager.get_client with a default instead of the ValueError
GetClientDefault(name) ==
    IF DictHas(clients, name)
    THEN [out |-> "ok", client |-> DictGet(clients, name)]
    ELSE IF clients # <<>>
    THEN [out |-> "ok", client |-> clients[1][2]]
    ELSE [out |-> "ValueError", client |-> 0]

\* MCPManager.get_client
GetClient(name) ==
    IF DictHas(clients, name)
    THEN [out |-> "ok", client |-> DictGet(clients, name)]
    ELSE [out |-> "ValueError", client |-> 0]

\* where MCPManager.call_tool(server_name, tool_name, ...) sends the call
Route(server_name, tool_name) ==
    [out |-> GetClient(server_name).out,
     client |-> GetClient(server_name).client,
     tool |-> IF GetClient(server_name).out = "ok" THEN tool_name ELSE <<>>]

\* where MCPManager.call_tool_by_full_name(full_name, ...) sends the call
RouteFullName(full_name) ==
    IF ~HasSep(full_name)
    THEN [out |-> "ValueError", client |-> 0, tool |-> <<>>]
    ELSE Route(Split1(full_name).server, Split1(full_name).tool)

\* the names of MCPManager.get_all_tools, in its order
RECURSIVE AllToolsFrom(_)
AllToolsFrom(items) ==
    IF items = <<>> THEN <<>>
    ELSE [j \in 1..Len(tools[items[1][2]]) |->
              FullName(items[1][1], tools[items[1][2]][j])]
         \o AllToolsFrom(Tail(items))

GetAllTools == AllToolsFrom(clients)

\* a dispatch that does not wait for the call before it to return (the calls
\* of a batch started together)
DispatchConcurrent(op, given, r, args) ==
    /\ mpc = MgrIdle
    /\ loop = 0
    /\ IF r.out # "ok"
       THEN /\ ev' = Ev(op, 0, 0, r.out, given, <<>>, {}, "None", NoLine)
            /\ UNCHANGED << request_id, sent, stdin, pend, wrote >>
       ELSE SendRequest(r.client, "call_tool", "tools/call", r.tool, args)
    /\ UNCHANGED << loop, stderr, chat, result, configs, declared, clients,
                    mpc, process, tools, child, stdout >>

\* a manager call that was routed to route r: the ValueError, or call_tool
\* of the client
Dispatch(op, given, r, args) ==
    /\ Quiet
    /\ IF r.out # "ok"
       THEN /\ ev' = Ev(op, 0, 0, r.out, given, <<>>, {}, "None", NoLine)
            /\ UNCHANGED << request_id, sent, stdin, pend, wrote >>
       ELSE SendRequest(r.client, "call_tool", "tools/call", r.tool, args)
    /\ UNCHANGED << loop, stderr, chat, result, configs,
                    declared, clients, mpc, process, tools, child,
                    stdout >>

\* MCPManager.call_tool up to the await in the client
MgrCallTool(server_name, tool_name, args) ==
    Dispatch("mgr_call_tool", server_name, Route(server_name, tool_name), args)

\* MCPManager.call_tool_by_full_name up to the await in the client
MgrCallToolByFullName(full_name, args) ==
    Dispatch("call_tool_by_full_name", full_name, RouteFullName(full_name),
             args)

\* MCPManager.start_all is entered: the loop is at its first config
MgrStartAll ==
    /\ Quiet
    /\ clients = <<>>
    /\ \A c \in Clients : child[c] = "none"
    /\ mpc' = [op |-> "start_all", i |-> 1, step |-> "start"]
    /\ ev' = Busy
    /\ UNCHANGED << chat, result, configs, declared, clients, sessVars >>

\* start_all calls client.start() of the client of the config it is at
MgrStart(c) ==
    /\ mpc = [op |-> "start_all", i |-> c, step |-> "start"]
    /\ ev = Busy
    /\ Start(c)

\* start_all calls client.list_tools()
MgrListTools(c) ==
    /\ mpc = [op |-> "start_all", i |-> c, step |-> "list"]
    /\ ev = Busy
    /\ ListTools(c)

\* start_all goes on when start() or list_tools() of its client has returned
\* or raised: the exception leaves start_all, list_tools follows start, the
\* client is registered and the loop goes to the next config
MgrStartAllStep ==
    /\ mpc.op = "start_all"
    /\ ev.op \in {"start", "list_tools"}
    /\ ev.c = mpc.i
    /\ IF ev.out # "ok"
       THEN /\ mpc' = MgrIdle
            /\ ev' = Ev("start_all", mpc.i, 0, ev.out, <<>>, <<>>, {}, "None",
                        NoLine)
            /\ UNCHANGED clients
       ELSE IF ev.op = "start"
       THEN /\ mpc' = [mpc EXCEPT !.step = "list"]
            /\ ev' = Busy
            /\ UNCHANGED clients
       ELSE /\ clients' = DictSet(clients, configs[mpc.i], mpc.i)
            /\ IF mpc.i < Len(configs)
               THEN /\ mpc' = [op |-> "start_all", i |-> mpc.i + 1,
                               step |-> "start"]
                    /\ ev' = Busy
               ELSE /\ mpc' = MgrIdle
                    /\ ev' = Ev("start_all", 0, 0, "ok", <<>>, <<>>, {},
                                "None", NoLine)
    /\ UNCHANGED << chat, result, configs, declared, sessVars >>

\* what stop() of client c may do: nothing without process, else StopPaths
StopOutcomes(c) ==
    IF process[c] = "None"
    THEN { [out |-> "ok", sig |-> {}, child |-> child[c]] }
    ELSE StopPaths(c)

\* the ways the loop of stop_all may go: one outcome of stop() per item of
\* self.clients
StopAllPaths ==
    { f \in [1..Len(clients) -> UNION { StopOutcomes(c) : c \in Clients }] :
          \A i \in 1..Len(clients) : f[i] \in StopOutcomes(clients[i][2]) }

\* the item of self.clients at which the loop of stop_all is left by an
\* exception; Len(clients) + 1 when no stop() raises
FirstRaise(f) ==
    IF \E i \in 1..Len(clients) : f[i].out # "ok"
    THEN CHOOSE i \in 1..Len(clients) :
             f[i].out # "ok" /\ \A j \in 1..(i - 1) : f[j].out = "ok"
    ELSE Len(clients) + 1

\* the names of the items 1..n of self.clients, one per line
NamesOf(n) == JoinNL(SubSeq(DictKeys(clients), 1, n))

\* MCPManager.stop_all, also as __aexit__ when the body of `async with` is
\* left: by return or exception (nothing is awaited), or by cancellation (the
\* request that was awaited is given up). stop() awaits nothing, so the loop
\* runs in one piece; it ends at the first stop() that raises.
MgrStopAll ==
    /\ mpc = MgrIdle
    /\ loop = 0
    /\ \E f \in StopAllPaths :
         LET k == FirstRaise(f)
             n == IF k > Len(clients) THEN Len(clients) ELSE k
             at(c) == CHOOSE i \in 1..n : clients[i][2] = c
             called(c) == \E i \in 1..n : clients[i][2] = c
         IN  /\ process' = [c \in Clients |->
                    IF called(c) /\ f[at(c)].out = "ok" THEN "None"
                    ELSE process[c]]
             /\ child' = [c \in Clients |->
                    IF called(c) THEN f[at(c)].child ELSE child[c]]
             /\ stdin' = [c \in Clients |->
                    IF called(c) /\ f[at(c)].child = "exited" THEN <<>>
                    ELSE stdin[c]]
             /\ clients' = IF k > Len(clients) THEN <<>> ELSE clients
             /\ ev' = Ev("stop_all", IF k > Len(clients) THEN 0 ELSE clients[k][2],
                         0, IF k > Len(clients) THEN "ok" ELSE f[k].out,
                         NamesOf(Len(clients)), NamesOf(n), {}, "None",
                         NoLine)
    /\ pend' = [c \in Clients |-> NoReq]
    /\ UNCHANGED << loop, stderr, chat, result, configs,
                    declared, mpc, request_id, tools,
                    stdout, sent, wrote >>

(***************************************************************************)
(* The chat loop: chat_loop and process_tool_calls of examples/chatbot.py  *)
(***************************************************************************)
\* a content block of a model response
TextBlock(text) == [type |-> "text", text |-> text, id |-> "", name |-> <<>>]

ToolUseBlock(id, name) ==
    [type |-> "tool_use", text |-> <<>>, id |-> id, name |-> name]

\* the content arrays of the model responses: no block, two text blocks,
\* one tool-use block, a text block followed by two tool-use blocks
Contents ==
    { <<>>,
      << TextBlock(<<"x">>), TextBlock(<<"y">>) >>,
      << ToolUseBlock("u1", FullName(<<"a">>, <<"t">>)) >>,
      << TextBlock(<<"x">>),
         ToolUseBlock("u2", FullName(<<"a">>, <<"t">>)),
         ToolUseBlock("u1", FullName(<<"a">>, <<"_", "t">>)) >> }

\* what call_claude may return
Responses ==
    { [stop_reason |-> sr, content |-> ct] :
          sr \in { "tool_use", "end_turn" }, ct \in Contents }

NoResponse == [stop_reason |-> "none", content |-> <<>>]

\* the messages of the history
UserMsg(text) ==
    [role |-> "user", kind |-> "text", text |-> text, blocks |-> <<>>]

AssistantToolUse(content) ==
    [role |-> "assistant", kind |-> "blocks", text |-> <<>>,
     blocks |-> content]

ToolResultsMsg(tool_results) ==
    [role |-> "user", kind |-> "results", text |-> <<>>,
     blocks |-> tool_results]

AssistantText(text) ==
    [role |-> "assistant", kind |-> "text", text |-> text, blocks |-> <<>>]

\* [block for block in response.get("content", []) if type == "tool_use"],
\* in reverse
ToolUsesReversed(content) ==
    LET tus == SelectSeq(content, LAMBDA b : b.type = "tool_use")
    IN  [i \in 1..Len(tus) |-> tus[Len(tus) + 1 - i]]

\* [block for block in response.get("content", []) if type == "tool_use"]
ToolUses(content) == SelectSeq(content, LAMBDA b : b.type = "tool_use")

\* the text of the first text block only
FinalTextFirst(response) ==
    IF TextsOf(response.content) = <<>> THEN <<>>
    ELSE TextsOf(response.content)[1]

\* "\n".join(text_blocks) of the last response
FinalText(response) == JoinNL(TextsOf(response.content))

\* what manager.call_tool_by_full_name may do: return a text or raise
ToolOutcomes ==
    { [kind |-> "returned", text |-> r] : r \in Texts } \cup
    { [kind |-> "raised", text |-> m] : m \in Msgs }

\* the tool call without its try/except: the exception leaves the batch
ToolResultNoCatch(o) ==
    IF o.kind = "returned"
    THEN [abort |-> FALSE, content |-> o.text]
    ELSE [abort |-> TRUE, content |-> <<>>]

\* try: result = await manager.call_tool_by_full_name(...)
\* except Exception as e: result = f"Error: {e}"
ToolResult(o) ==
    IF o.kind = "returned"
    THEN [abort |-> FALSE, content |-> o.text]
    ELSE [abort |-> FALSE, content |-> <<"Error: ">> \o o.text]

\* the except branch of chat_loop: the last message is removed when it is a
\* user message
ErrorHandler(messages) ==
    IF messages # <<>> /\ messages[Len(messages)].role = "user"
    THEN SubSeq(messages, 1, Len(messages) - 1)
    ELSE messages

\* chat_loop has been entered: messages = []
ChatBegin ==
    [pc |-> "input", messages |-> <<>>, base |-> <<>>, input |-> <<>>,
     response |-> NoResponse, tool_uses |-> <<>>, tool_results |-> <<>>,
     called |-> <<>>, rounds |-> 0, turns |-> 0, outcome |-> "none"]

\* what the chat loop leaves alone
notChat == << result, configs, declared, clients, mpc, sessVars, ev >>

\* the user types a message: it is appended and the turn begins.
\* base, input, called, rounds, turns and outcome are history.
UserInput(u) ==
    /\ chat.pc = "input"
    /\ chat.turns < Len(Inputs)
    /\ u = Inputs[chat.turns + 1]
    /\ chat' = [chat EXCEPT !.pc = "claude",
                            !.messages = Append(@, UserMsg(u)),
                            !.base = chat.messages,
                            !.input = u,
                            !.response = NoResponse,
                            !.tool_uses = <<>>,
                            !.tool_results = <<>>,
                            !.called = <<>>,
                            !.rounds = 0,
                            !.turns = @ + 1,
                            !.outcome = "none"]
    /\ UNCHANGED notChat

\* the user types "clear"
Clear ==
    /\ chat.pc = "input"
    /\ chat.messages # <<>>
    /\ chat' = [chat EXCEPT !.messages = <<>>, !.outcome = "none"]
    /\ UNCHANGED notChat

\* the input ends (EOFError): the loop is left
Quit ==
    /\ chat.pc = "input"
    /\ chat.turns = Len(Inputs)
    /\ chat' = [ChatBegin EXCEPT !.pc = "quit"]
    /\ UNCHANGED notChat

\* an exception reaches the except branch of chat_loop
TurnFails ==
    chat' = [chat EXCEPT !.pc = "input",
                         !.messages = ErrorHandler(@),
                         !.outcome = "failed"]

\* process_tool_calls without `if not tool_uses: break`: an empty batch is a
\* round like any other
ProcessResponseNoBreak(r) ==
    IF r.stop_reason = "tool_use" /\ ToolUses(r.content) # <<>>
    THEN chat' = [chat EXCEPT !.pc = "tools",
                              !.messages = Append(@, AssistantToolUse(r.content)),
                              !.response = r,
                              !.tool_uses = ToolUses(r.content),
                              !.tool_results = <<>>,
                              !.called = <<>>]
    ELSE IF r.stop_reason = "tool_use"
    THEN chat' = [chat EXCEPT !.pc = "claude",
                              !.messages = Append(Append(@,
                                  AssistantToolUse(r.content)),
                                  ToolResultsMsg(<<>>)),
                              !.response = r,
                              !.rounds = @ + 1]
    ELSE chat' = [chat EXCEPT !.pc = "input",
                              !.messages = Append(@, AssistantText(FinalText(r))),
                              !.response = r,
                              !.outcome = "done"]

\* process_tool_calls with response r in hand: the loop head, up to the first
\* tool call of the batch, or the final text and the end of the turn
ProcessResponse(r) ==
    IF r.stop_reason = "tool_use" /\ ToolUses(r.content) # <<>>
    THEN chat' = [chat EXCEPT !.pc = "tools",
                              !.messages = Append(@, AssistantToolUse(r.content)),
                              !.response = r,
                              !.tool_uses = ToolUses(r.content),
                              !.tool_results = <<>>,
                              !.called = <<>>]
    ELSE chat' = [chat EXCEPT !.pc = "input",
                              !.messages = Append(@, AssistantText(FinalText(r))),
                              !.response = r,
                              !.outcome = "done"]

\* call_claude returns a response or raises
CallClaude ==
    /\ chat.pc = "claude"
    /\ \/ TurnFails
       \/ \E r \in Responses :
              /\ chat.rounds < MaxRounds \/ r.stop_reason # "tool_use"
              /\ ProcessResponse(r)
    /\ UNCHANGED notChat

\* one tool call of the batch; after the last one the results are appended
\* and the model is called again
ExecuteTool ==
    /\ chat.pc = "tools"
    /\ \E o \in ToolOutcomes :
          LET tool_use == chat.tool_uses[Len(chat.tool_results) + 1]
              res == ToolResult(o)
              tool_results == Append(chat.tool_results,
                                     [type |-> "tool_result",
                                      tool_use_id |-> tool_use.id,
                                      content |-> res.content])
              called == Append(chat.called,
                               [id |-> tool_use.id, kind |-> o.kind,
                                text |-> o.text])
          IN  IF res.abort
              THEN TurnFails
              ELSE IF Len(tool_results) < Len(chat.tool_uses)
              THEN chat' = [chat EXCEPT !.tool_results = tool_results,
                                        !.called = called]
              ELSE chat' = [chat EXCEPT !.pc = "claude",
                                        !.messages =
                                            Append(@, ToolResultsMsg(tool_results)),
                                        !.tool_results = tool_results,
                                        !.called = called,
                                        !.rounds = @ + 1]
    /\ UNCHANGED notChat

(***************************************************************************)
(* One session and its child                                               *)
(***************************************************************************)
\* no chat loop runs
NoChat == [pc |-> "off"]

\* no result object is looked at
NoResult == [has_content |-> FALSE, is_list |-> FALSE, content |-> <<>>]

\* a MCPClient after __init__, its server program not started
InitSessions ==
    /\ process = [c \in Clients |-> "None"]
    /\ request_id = [c \in Clients |-> 0]
    /\ tools = [c \in Clients |-> <<>>]
    /\ pend = [c \in Clients |-> NoReq]
    /\ child = [c \in Clients |-> "none"]
    /\ stdin = [c \in Clients |-> <<>>]
    /\ stdout = [c \in Clients |-> <<>>]
    /\ stderr = [c \in Clients |-> 0]
    /\ loop = 0
    /\ sent = [c \in Clients |-> <<>>]
    /\ wrote = [c \in Clients |-> <<>>]
    /\ ev = NoEv

\* one MCPClient, used directly (async with MCPClient(config) as client)
Init ==
    /\ configs = << <<"a">> >>
    /\ declared \in [Clients -> ToolLists]
    /\ declared[2] = <<>>
    /\ clients = <<>>
    /\ mpc = MgrIdle
    /\ InitSessions
    /\ chat = NoChat
    /\ result = NoResult

Next ==
    \/ Start(1)
    \/ Initialize(1)
    \/ ReadResponse(1)
    \/ ListTools(1)
    \/ \E n \in ToolNames, a \in Arguments : CallTool(1, n, a)
    \/ Notify(1)
    \/ Stop(1)
    \/ ChildHandle(1)
    \/ ChildExit(1)

Spec == Init /\ [][Next]_vars

\* one MCPClient whose server also sends messages of its own
WireNext ==
    \/ Start(1)
    \/ Initialize(1)
    \/ ReadResponse(1)
    \/ ListTools(1)
    \/ \E n \in ToolNames, a \in MgrArguments : CallTool(1, n, a)
    \/ ChildHandle(1)
    \/ ChildNotify(1)
    \/ ChildExit(1)

WireSpec == Init /\ [][WireNext]_vars

\* one MCPClient whose server logs to stderr
PipeNext ==
    \/ Start(1)
    \/ Initialize(1)
    \/ ReadResponse(1)
    \/ ListTools(1)
    \/ \E n \in ToolNames, a \in MgrArguments : CallTool(1, n, a)
    \/ Stop(1)
    \/ ChildHandle(1)
    \/ ChildLog(1)
    \/ ChildExit(1)

PipeSpec == Init /\ [][PipeNext]_vars

(***************************************************************************)
(* Two sessions on one event loop, each driven by a task of its own        *)
(***************************************************************************)
LoopInit ==
    /\ configs = << <<"a">> >>
    /\ declared = [c \in Clients |-> << <<"t">> >>]
    /\ clients = <<>>
    /\ mpc = MgrIdle
    /\ InitSessions
    /\ chat = NoChat
    /\ result = NoResult

LoopNext ==
    \E c \in Clients :
        \/ Start(c)
        \/ Initialize(c)
        \/ CallTool(c, <<"t">>, "{k: v}")
        \/ ReadResponse(c)
        \/ ReadStderr(c)
        \/ StderrRead(c)
        \/ ChildHandle(c)
        \/ ChildCloseStdout(c)
        \/ ChildExitClosing(c)
        \/ ChildExit(c)

LoopSpec == LoopInit /\ [][LoopNext]_vars

(***************************************************************************)
(* The manager, its sessions and their children                            *)
(***************************************************************************)
\* the full names a caller may pass: the catalog's, and names without "__"
CallFullNames ==
    { FullName(s, t) : s \in ServerNames, t \in ToolNames } \cup ToolNames

\* MCPManager(configs) after __init__, for two configs
MgrInit ==
    /\ configs \in [1..2 -> ServerNames]
    /\ declared \in [Clients -> ToolLists]
    /\ clients = <<>>
    /\ mpc = MgrIdle
    /\ InitSessions
    /\ chat = NoChat
    /\ result = NoResult

MgrNext ==
    \/ MgrStartAll
    \/ \E c \in Clients : MgrStart(c)
    \/ \E c \in Clients : Initialize(c)
    \/ \E c \in Clients : MgrListTools(c)
    \/ \E c \in Clients : ReadResponse(c)
    \/ MgrStartAllStep
    \/ \E s \in ServerNames, t \in ToolNames, a \in MgrArguments :
           MgrCallTool(s, t, a)
    \/ \E f \in CallFullNames, a \in MgrArguments : MgrCallToolByFullName(f, a)
    \/ \E c \in Clients : ChildHandle(c)
    \/ \E c \in Clients : ChildExit(c)

MgrSpec == MgrInit /\ [][MgrNext]_vars

(***************************************************************************)
(* The scope of a manager: async with MCPManager(configs) as manager       *)
(***************************************************************************)
\* two configs, each server declaring the one tool "t"
ScopeInit ==
    /\ MgrInit
    /\ declared = [c \in Clients |-> << <<"t">> >>]

\* __aenter__ (start_all), the calls of the body, __aexit__ (stop_all)
ScopeNext ==
    \/ MgrStartAll
    \/ \E c \in Clients : MgrStart(c)
    \/ \E c \in Clients : Initialize(c)
    \/ \E c \in Clients : MgrListTools(c)
    \/ \E c \in Clients : ReadResponse(c)
    \/ MgrStartAllStep
    \/ \E f \in CallFullNames, a \in MgrArguments : MgrCallToolByFullName(f, a)
    \/ MgrStopAll
    \/ \E c \in Clients : ChildHandle(c)
    \/ \E c \in Clients : ChildExit(c)

ScopeSpec == ScopeInit /\ [][ScopeNext]_vars

(***************************************************************************)
(* The text MCPClient.call_tool makes of a result object                   *)
(***************************************************************************)
\* the sequences of length <= n over S
RECURSIVE SeqsUpTo(_, _)
SeqsUpTo(S, n) ==
    IF n = 0 THEN { <<>> }
    ELSE LET shorter == SeqsUpTo(S, n - 1)
         IN  shorter \cup
             UNION { { Append(s, x) : x \in S } : s \in shorter }

\* the content blocks of a result: text blocks, and blocks of another type
\* (with or without a "text" of their own)
ResultBlocks ==
    { [type |-> ty, text |-> tx] :
          ty \in { "text", "image" }, tx \in { <<>>, <<"r">>, <<"s">> } }

\* the result objects of a tools/call: without "content", with a content
\* that is no list, with a list of blocks
Results ==
    { [has_content |-> FALSE, is_list |-> FALSE, content |-> <<>>],
      [has_content |-> TRUE, is_list |-> FALSE, content |-> <<>>] } \cup
    { [has_content |-> TRUE, is_list |-> TRUE, content |-> ct] :
          ct \in SeqsUpTo(ResultBlocks, MaxContent) }

\* repr of the blocks of a content list
RECURSIVE ReprBlocks(_)
ReprBlocks(content) ==
    IF content = <<>> THEN <<>>
    ELSE << "{'type': '", content[1].type, "', 'text': '" >>
         \o content[1].text \o << "'}" >>
         \o (IF Len(content) > 1 THEN <<", ">> ELSE <<>>)
         \o ReprBlocks(Tail(content))

\* str(result)
StrOfResult(r) ==
    IF ~r.has_content THEN << "{}" >>
    ELSE IF ~r.is_list THEN << "{'content': ", "...", "}" >>
    ELSE << "{'content': ", "[" >> \o ReprBlocks(r.content) \o << "]", "}" >>

\* MCPClient.call_tool after its request: content = result.get("content", []);
\* a content that is a list and not empty gives the joined texts, any other
\* the stringified result
CallToolResult(r) ==
    IF r.has_content /\ r.is_list /\ r.content # <<>>
    THEN JoinNL(TextsOf(r.content))
    ELSE StrOfResult(r)

\* call_tool returns the text of the result object
ExtractText ==
    /\ ev = NoEv
    /\ ev' = Ev("call_tool_text", 0, 0, "ok", <<>>, CallToolResult(result), {},
                "None", NoLine)
    /\ UNCHANGED << chat, result, configs, declared, clients, mpc, sessVars >>

\* a running session has received a result object
TextInit ==
    /\ configs = << <<"a">> >>
    /\ declared = [c \in Clients |-> <<>>]
    /\ clients = <<>>
    /\ mpc = MgrIdle
    /\ InitSessions
    /\ chat = NoChat
    /\ result \in Results

TextNext == ExtractText

TextSpec == TextInit /\ [][TextNext]_vars

(***************************************************************************)
(* The servers' tool handlers, applied to what the client library or the   *)
(* configuration loader under them does                                    *)
(***************************************************************************)
\* the handlers and the context each one passes to format_error
ToolContexts ==
    { << "list_repos_tool", "list_repos" >>,
      << "get_repo_info_tool", "get_repo_info" >>,
      << "get_my_jira_issues_tool", "get_my_jira_issues" >>,
      << "search_confluence_pages_tool", "search_confluence_pages" >>,
      << "list_oke_clusters_tool", "list_oke_clusters" >> }

ToolHandlers == { tc[1] : tc \in ToolContexts }

ContextOf(tool) == (CHOOSE tc \in ToolContexts : tc[1] = tool)[2]

\* the messages of the exceptions
ErrMsgs == { <<>>, <<"x">>, <<"y", "z">> }

\* what the code under a handler does: it returns count items, or the
\* configuration loader or the client raises
Underlying(tool) ==
    { [kind |-> "returns", site |-> "client", type |-> "None",
       message |-> <<>>, status |-> "None", count |-> n] : n \in 0..MaxCount }
    \cup
    { [kind |-> "raises", site |-> s, type |-> ty, message |-> m,
       status |-> "None", count |-> 0] :
          s \in { "config", "client" }, ty \in { "Exception", "ValueError" },
          m \in ErrMsgs }
    \cup
    (IF tool = "list_oke_clusters_tool"
     THEN { [kind |-> "raises", site |-> "config",
             type |-> "OCIAuthenticationError", message |-> m,
             status |-> "None", count |-> 0] : m \in ErrMsgs }
          \cup
          { [kind |-> "raises", site |-> "client", type |-> "ServiceError",
             message |-> m, status |-> st, count |-> 0] :
                m \in ErrMsgs, st \in { "401", "500" } }
     ELSE {})

HandlerCalls ==
    UNION { { [tool |-> t, under |-> u] : u \in Underlying(t) } :
                t \in ToolHandlers }

\* json.dumps of a dict whose values are written as one token each
RECURSIVE DumpItems(_)
DumpItems(items) ==
    IF items = <<>> THEN <<>>
    ELSE << "\"", items[1][1], "\": ", items[1][2] >>
         \o (IF Len(items) > 1 THEN <<", ">> ELSE <<>>)
         \o DumpItems(Tail(items))

\* format_result of a dict
format_result(items) == << "{" >> \o DumpItems(items) \o << "}" >>

\* format_error with a context
format_error(type, message, context) ==
    << "Error (", type, ")", " in ", context, ": " >> \o message

\* format_auth_error, which the oracle_cloud tools import from base_server:
\* its text is kept as the call
format_auth_error == << "format_auth_error(", "profile_name", ")" >>

\* the number n as json.dumps writes it
NumText(n) == IF n = 0 THEN "0" ELSE IF n = 1 THEN "1" ELSE "2"

\* the dict a handler passes to format_result when nothing under it raised
ResultItems(tool, n) ==
    IF tool = "list_repos_tool"
    THEN << << "count", NumText(n) >>, << "repositories", "[...]" >>,
            << "all_tags", "[...]" >> >>
    ELSE IF tool = "get_repo_info_tool"
    THEN IF n > 0
         THEN << << "success", "true" >>, << "repository", "{...}" >> >>
         ELSE << << "success", "false" >>,
                 << "error", "\"Repository not found: name\"" >>,
                 << "available_repos", "[...]" >> >>
    ELSE IF tool = "get_my_jira_issues_tool"
    THEN << << "count", NumText(n) >>, << "issues", "[...]" >> >>
    ELSE IF tool = "search_confluence_pages_tool"
    THEN << << "query", "\"q\"" >>, << "space_key", "null" >>,
            << "count", NumText(n) >>, << "pages", "[...]" >> >>
    ELSE << << "region", "\"r\"" >>, << "compartment_id", "\"c\"" >>,
            << "count", NumText(n) >>, << "clusters", "[...]" >> >>

\* what a call of a handler gives
Returned(text) == [out |-> "ok", text |-> text]
Raised(type, message) == [out |-> type, text |-> message]

\* the body of a handler in try .. except Exception as e: return format_error
TryExcept(tool, u) ==
    IF u.kind = "returns" THEN Returned(format_result(ResultItems(tool, u.count)))
    ELSE Returned(format_error(u.type, u.message, ContextOf(tool)))

\* the wrapper of the oci_tool decorator
oci_tool(tool, u) ==
    IF u.kind = "returns" THEN Returned(format_result(ResultItems(tool, u.count)))
    ELSE IF u.type = "OCIAuthenticationError" THEN Returned(format_auth_error)
    ELSE IF u.type = "ServiceError"
    THEN IF u.status = "401" THEN Returned(format_auth_error)
         ELSE Raised(u.type, u.message)
    ELSE Returned(format_error(u.type, u.message, ContextOf(tool)))

\* a tool handler called while the code under it does u
Handler(tool, u) ==
    IF tool = "list_oke_clusters_tool" THEN oci_tool(tool, u)
    ELSE TryExcept(tool, u)

\* the handler is awaited
CallHandler ==
    /\ ev = NoEv
    /\ LET r == Handler(result.tool, result.under)
       IN ev' = Ev("handler", 0, 0, r.out, <<result.tool>>, r.text, {},
                   "None", NoLine)
    /\ UNCHANGED << chat, result, configs, declared, clients, mpc, sessVars >>

\* a server is about to call one of its handlers
ToolInit ==
    /\ configs = << <<"a">> >>
    /\ declared = [c \in Clients |-> <<>>]
    /\ clients = <<>>
    /\ mpc = MgrIdle
    /\ InitSessions
    /\ chat = NoChat
    /\ result \in HandlerCalls

ToolNext == CallHandler

ToolSpec == ToolInit /\ [][ToolNext]_vars

(***************************************************************************)
(* The chat loop, the manager's calls taken as returning or raising        *)
(***************************************************************************)
ChatInit ==
    /\ configs = << <<"a">> >>
    /\ declared = [c \in Clients |-> <<>>]
    /\ clients = <<>>
    /\ mpc = MgrIdle
    /\ InitSessions
    /\ chat = ChatBegin
    /\ result = NoResult

ChatNext ==
    \/ \E u \in Range(Inputs) : UserInput(u)
    \/ Clear
    \/ Quit
    \/ CallClaude
    \/ ExecuteTool

ChatSpec == ChatInit /\ [][ChatNext]_vars

\* the executor's readline returns once a line or end-of-stream is there, and
\* start goes on from Popen to _initialize: these steps are taken
FairSpec == Spec /\ WF_vars(ReadResponse(1)) /\ WF_vars(Initialize(1))

(***************************************************************************)
(* Properties of one session                                               *)
(***************************************************************************)
\* the lines a server has written for client c that are in the pipe, and
\* the one the last returned operation of c read
Lines(c) == Range(stdout[c]) \cup (IF ev.c = c THEN { ev.line } ELSE {})

\* C1: the ids a session's _send_request calls put on their requests are
\* 1, 2, 3, ...: pairwise distinct, increasing by one, whatever happened in
\* between (notifications, error responses, failed reads)
C1_RequestIdsIncrease ==
    \A c \in Clients :
        /\ Len(sent[c]) = request_id[c]
        /\ \A i \in 1..Len(sent[c]) : sent[c][i] = i

\* three requests were sent and the last one read end-of-stream
C1_Witness ==
    /\ Len(sent[1]) >= 3
    /\ ev.op = "list_tools"
    /\ ev.out = "Closed"

\* C5: when the handler raised for tool T, the request is answered with a
\* result (not an error) and call_tool of the client returns a string that
\* contains T and the exception's message
C5_HandlerErrorIsText ==
    /\ \A c \in Clients : \A ln \in Lines(c) :
           ln.handler = "raised" => ln.kind = "result"
    /\ (ev.op = "call_tool" /\ ev.line.handler = "raised") =>
           /\ ev.out = "ok"
           /\ ev.line.req.name = ev.name
           /\ Contains(ev.val, ev.name)
           /\ Contains(ev.val, ev.line.hmsg)

\* call_tool returned after the handler raised with message "m"
C5_Witness ==
    /\ ev.op = "call_tool"
    /\ ev.line.handler = "raised"
    /\ ev.line.hmsg = <<"m">>
    /\ ev.name = <<"_", "t">>

\* C6: a tools/call for a name without handler is answered with a result
\* whose one text is "Unknown tool: <name>. Available tools: <list>"; no
\* handler ran and no error response was written
C6_UnknownToolIsText ==
    /\ ListRepr(<< <<"t">>, <<"_", "t">> >>)
          = << "[", "'", "t", "'", ", ", "'", "_", "t", "'", "]" >>
    /\ \A c \in Clients : \A ln \in Lines(c) :
           (ln.req.method = "tools/call"
                /\ ln.req.name \notin Range(declared[c])) =>
               /\ ln.kind = "result"
               /\ ln.handler = "none"
               /\ ln.content = << [type |-> "text",
                                   text |-> <<"Unknown tool: ">> \o ln.req.name
                                            \o <<". Available tools: ">>
                                            \o ListRepr(declared[c])] >>
    /\ (ev.op = "call_tool" /\ ev.line.req.method = "tools/call"
            /\ ev.name \notin Range(declared[ev.c])) =>
           /\ ev.out = "ok"
           /\ ev.val = <<"Unknown tool: ">> \o ev.name
                       \o <<". Available tools: ">>
                       \o ListRepr(declared[ev.c])

\* call_tool returned for a tool the server, which declares one, does not have
C6_Witness ==
    /\ ev.op = "call_tool"
    /\ ev.out = "ok"
    /\ declared[1] = << <<"t">> >>
    /\ ev.name = <<"_", "t">>

\* C7: a request whose child has exited without a line for it fails with the
\* connection-closed error: it does fail, and it fails with nothing else
C7_ClosedWhenChildExits ==
    /\ \A c \in Clients : \A n \in 1..MaxId :
           (pend[c].id = n /\ child[c] = "exited" /\ stdout[c] = <<>>)
               ~> (ev.c = c /\ ev.id = n /\ ev.out = "Closed")
    /\ [][ \A c \in Clients :
               (pend[c].id # 0 /\ child[c] = "exited" /\ stdout[c] = <<>>
                    /\ pend'[c].id = 0)
                   => (ev'.out = "Closed" /\ ev'.id = pend[c].id) ]_vars

\* a tools/call failed with the connection-closed error
C7_Witness ==
    /\ ev.op = "call_tool"
    /\ ev.out = "Closed"
    /\ child[1] = "exited"

\* C8: every request that was written is resolved at some later time
C8_EveryRequestResolves ==
    \A c \in Clients : \A n \in 1..MaxId :
        (pend[c].id = n) ~> (pend[c].id # n)

\* C9: stop on a session without process changes nothing, raises nothing and
\* sends no signal
C9_StopOnClosedIsNoOp ==
    [][ \A c \in Clients :
            (Stop(c) /\ process[c] = "None")
                => /\ UNCHANGED << sessVars, mgrVars >>
                   /\ ev'.out = "ok"
                   /\ ev'.sig = {} ]_vars

\* stop returned on a session that an earlier stop had closed
C9_Witness ==
    /\ ev.op = "stop"
    /\ ev.pre = "None"
    /\ request_id[1] > 0
    /\ child[1] = "exited"

\* C10: when stop has returned or raised, the session holds no process
C10_StopAlwaysCloses ==
    ev.op = "stop" => process[ev.c] = "None"

\* C11: when start has raised, the session holds no process and its child
\* does not run
C11_FailedStartCloses ==
    (ev.op = "start" /\ ev.out # "ok") =>
        /\ process[ev.c] = "None"
        /\ child[ev.c] # "alive"

\* the place of event e in a log that holds it
Pos(log, e) == CHOOSE i \in 1..Len(log) : log[i] = e

\* event a is in the log whenever event b is, and before it
Before(log, a, b) ==
    b \in Range(log) => (a \in Range(log) /\ Pos(log, a) < Pos(log, b))

\* C15: the first message a session's child is sent is the initialize
\* request; the initialized notification is sent after the initialize
\* result was received; a tools/list or tools/call request is sent after
\* that notification
C15_HandshakeFirst ==
    \A c \in Clients :
        /\ wrote[c] # <<>> => wrote[c][1] = "initialize"
        /\ Before(wrote[c], "initialize result", "notifications/initialized")
        /\ Before(wrote[c], "notifications/initialized", "tools/list")
        /\ Before(wrote[c], "notifications/initialized", "tools/call")

\* the texts of the blocks of type "text", in order
RECURSIVE TextBlocksOf(_)
TextBlocksOf(content) ==
    IF content = <<>> THEN <<>>
    ELSE (IF Head(content).type = "text" THEN << Head(content).text >>
          ELSE <<>>) \o TextBlocksOf(Tail(content))

\* C20: call_tool returns the newline-joined texts of the text blocks of
\* the content array, and the stringified result when there is no text block
\* (no content, an empty one, or blocks of other types only)
C20_TextOrRawResult ==
    ev.op = "call_tool_text" =>
        LET texts == IF result.has_content /\ result.is_list
                     THEN TextBlocksOf(result.content) ELSE <<>>
        IN  ev.val = IF texts # <<>> THEN JoinNL(texts)
                     ELSE StrOfResult(result)

(***************************************************************************)
(* Properties of the manager                                               *)
(***************************************************************************)
\* C2: when the configs carry pairwise distinct server names, the names
\* get_all_tools returns are pairwise distinct
C2_FullNamesDistinct == NoDup(configs) => NoDup(GetAllTools)

\* C3: for a registered server s and a tool name t, call_tool_by_full_name
\* of s + "__" + t goes where call_tool(s, t) goes: the same client, the
\* same tool name
C3_FullNameRoundTrip ==
    \A s \in Range(DictKeys(clients)) : \A t \in ToolNames :
        RouteFullName(FullName(s, t)) = Route(s, t)

\* C4: call_tool_by_full_name of a name without "__" and call_tool of a
\* server that is not registered raise, write nothing and leave every
\* session and the manager as they were
C4_UnknownSessionTouchesNothing ==
    [][ /\ \A f \in CallFullNames : \A a \in MgrArguments :
               (~HasSep(f) /\ MgrCallToolByFullName(f, a))
                   => /\ ev'.out = "ValueError"
                      /\ UNCHANGED << sessVars, mgrVars >>
        /\ \A s \in ServerNames : \A t \in ToolNames : \A a \in MgrArguments :
               (~DictHas(clients, s) /\ MgrCallTool(s, t, a))
                   => /\ ev'.out = "ValueError"
                      /\ UNCHANGED << sessVars, mgrVars >>
        /\ \A f \in CallFullNames : \A a \in MgrArguments :
               (HasSep(f) /\ ~DictHas(clients, Split1(f).server)
                    /\ MgrCallToolByFullName(f, a))
                   => /\ ev'.out = "ValueError"
                      /\ UNCHANGED << sessVars, mgrVars >> ]_vars

\* with a session running, call_tool raised for a server that is not
\* registered
C4_Witness ==
    /\ ev.op = "mgr_call_tool"
    /\ ev.out = "ValueError"
    /\ clients # <<>>
    /\ ~DictHas(clients, ev.name)
    /\ \E c \in Clients : process[c] = "Popen" /\ child[c] = "alive"

\* C12: when start_all has raised, no child it spawned runs and no session is
\* registered
C12_FailedStartAllStopsAll ==
    (ev.op = "start_all" /\ ev.out # "ok") =>
        /\ clients = <<>>
        /\ \A c \in Clients : child[c] # "alive" /\ process[c] = "None"

\* C13: stop_all calls stop() on every registered session, raises nothing and
\* leaves no session registered
C13_StopAllStopsAll ==
    ev.op = "stop_all" =>
        /\ ev.val = ev.name
        /\ ev.out = "ok"
        /\ clients = <<>>

\* start_all has returned: the client of the last config is registered
StartedAll ==
    /\ mpc = MgrIdle
    /\ clients # <<>>
    /\ clients[Len(clients)][2] = Len(configs)

\* C14: when the scope of a manager whose start_all had returned is left,
\* every session that was started has been stopped: it holds no process and
\* its child does not run
C14_ScopeExitStopsAll ==
    [][ (StartedAll /\ MgrStopAll) =>
            \A c \in Clients :
                child[c] # "none" =>
                    (process'[c] = "None" /\ child'[c] = "exited") ]_vars

(***************************************************************************)
(* Properties of the chat loop                                             *)
(***************************************************************************)
\* C16: when a turn has failed and the error was handled, the history is
\* what it was before the turn's user message was appended
C16_FailedTurnRestoresHistory ==
    (chat.pc = "input" /\ chat.outcome = "failed") =>
        chat.messages = chat.base

\* C17: a tool call that raised has the result "Error: <message>"; the batch
\* goes on to its other blocks and then to the next model call: a turn never
\* ends inside a batch
C17_ToolErrorIsResult ==
    /\ \A i \in 1..Len(chat.called) :
           chat.called[i].kind = "raised" =>
               chat.tool_results[i].content
                   = <<"Error: ">> \o chat.called[i].text
    /\ Len(chat.tool_results) = Len(chat.called)
    /\ chat.pc = "tools" => Len(chat.called) < Len(chat.tool_uses)
    /\ chat.pc # "tools" => Len(chat.called) = Len(chat.tool_uses)
    /\ (chat.pc = "claude" /\ chat.rounds > 0) =>
           chat.messages[Len(chat.messages)].blocks = chat.tool_results

\* in a batch of two the first call raised, the second returned, and the
\* turn ended with an answer
C17_Witness ==
    /\ chat.outcome = "done"
    /\ Len(chat.called) = 2
    /\ chat.called[1].kind = "raised"
    /\ chat.called[2].kind = "returned"

\* the tool-use blocks b1..bn of the response whose batch is under way or
\* was just answered
BatchBlocks ==
    SelectSeq(chat.response.content, LAMBDA b : b.type = "tool_use")

\* C18: the tools of a batch are called in the order of the blocks b1..bn,
\* and the tool-result message holds n results, the i-th with the id of bi
C18_ResultsInBlockOrder ==
    /\ chat.pc = "tools" =>
           \A i \in 1..Len(chat.called) :
               /\ chat.called[i].id = BatchBlocks[i].id
               /\ chat.tool_results[i].tool_use_id = BatchBlocks[i].id
    /\ (chat.pc = "claude" /\ chat.rounds > 0) =>
           LET last == chat.messages[Len(chat.messages)]
           IN  /\ last.role = "user"
               /\ Len(last.blocks) = Len(BatchBlocks)
               /\ Len(chat.called) = Len(BatchBlocks)
               /\ \A i \in 1..Len(BatchBlocks) :
                      /\ last.blocks[i].type = "tool_result"
                      /\ last.blocks[i].tool_use_id = BatchBlocks[i].id
                      /\ chat.called[i].id = BatchBlocks[i].id

\* the results of the batch u2, u1 were appended
C18_Witness ==
    /\ chat.pc = "claude"
    /\ chat.rounds > 0
    /\ Len(chat.messages[Len(chat.messages)].blocks) = 2
    /\ chat.messages[Len(chat.messages)].blocks[1].tool_use_id = "u2"
    /\ chat.messages[Len(chat.messages)].blocks[2].tool_use_id = "u1"

\* C19: a turn that ended with an answer after k tool rounds has added to
\* the history the user message, k pairs (assistant tool-use message, user
\* tool-result message) and the assistant message with the newline-joined
\* texts of the last response, and changed nothing else
C19_SuccessfulTurnShape ==
    chat.outcome = "done" =>
        LET b == Len(chat.base)
            k == chat.rounds
            m == chat.messages
        IN  /\ Len(m) = b + 2 * k + 2
            /\ SubSeq(m, 1, b) = chat.base
            /\ m[b + 1] = [role |-> "user", kind |-> "text",
                           text |-> chat.input, blocks |-> <<>>]
            /\ \A j \in 1..k :
                   /\ m[b + 2 * j].role = "assistant"
                   /\ m[b + 2 * j].kind = "blocks"
                   /\ m[b + 2 * j + 1].role = "user"
                   /\ m[b + 2 * j + 1].kind = "results"
            /\ m[Len(m)] = [role |-> "assistant", kind |-> "text",
                            text |-> JoinNL(TextsOf(chat.response.content)),
                            blocks |-> <<>>]

\* a second turn ended with the answer "x\ny" after two tool rounds
C19_Witness ==
    /\ chat.outcome = "done"
    /\ chat.rounds = 2
    /\ chat.base # <<>>
    /\ chat.messages[Len(chat.messages)].text = << "x", "\n", "y" >>

\* C30: when the model answers with stop_reason "tool_use" and a content
\* without tool-use block, the turn ends at once: nothing is called, no
\* tool-use or tool-result message is appended, the model is not called
\* again, and the answer is the newline-joined texts of that response
C30_ToolUseWithoutBlockEndsTurn ==
    [][ (/\ chat.pc = "claude"
         /\ chat'.outcome # "failed"
         /\ chat'.response.stop_reason = "tool_use"
         /\ \A i \in 1..Len(chat'.response.content) :
                chat'.response.content[i].type # "tool_use")
        => /\ chat'.pc = "input"
           /\ chat'.outcome = "done"
           /\ chat'.messages =
                  Append(chat.messages,
                         [role |-> "assistant", kind |-> "text",
                          text |-> JoinNL(TextBlocksOf(chat'.response.content)),
                          blocks |-> <<>>])
           /\ chat'.rounds = chat.rounds
           /\ chat'.called = chat.called ]_vars

\* after one tool round the model answered "tool_use" with two text blocks
\* and no tool-use block, and the turn ended with "x\ny"
C30_Witness ==
    /\ chat.pc = "input"
    /\ chat.outcome = "done"
    /\ chat.rounds = 1
    /\ chat.response = [stop_reason |-> "tool_use",
                        content |-> << TextBlock(<<"x">>), TextBlock(<<"y">>) >>]
    /\ chat.messages[Len(chat.messages)].text = << "x", "\n", "y" >>

(***************************************************************************)
(* Properties of the servers' tool handlers                                *)
(***************************************************************************)
\* json.loads of the text gives a dict
IsJsonObject(text) ==
    /\ text # <<>>
    /\ text[1] = "{"
    /\ text[Len(text)] = "}"

\* the dict has an "error" entry
HasErrorField(text) ==
    \E i \in 1..Len(text) :
        /\ i + 2 <= Len(text)
        /\ text[i] = "\""
        /\ text[i + 1] = "error"
        /\ text[i + 2] = "\": "

\* C21: when the client or the configuration loader under a tool handler
\* raises, the handler does not raise: it returns the text of a JSON object
\* that has an "error" field with the exception's message in it
C21_HandlerErrorIsJson ==
    (ev.op = "handler" /\ result.under.kind = "raises") =>
        /\ ev.out = "ok"
        /\ IsJsonObject(ev.val)
        /\ HasErrorField(ev.val)
        /\ Contains(ev.val, result.under.message)

(***************************************************************************)
(* Properties of the wire                                                  *)
(***************************************************************************)
\* C22: what list_tools and call_tool get from _send_request for the request
\* with id N is the result of the response with id N: a line with another
\* id or without id is never taken as the result
C22_ResultOfOwnResponse ==
    (ev.op \in { "list_tools", "call_tool" } /\ ev.out = "ok") =>
        /\ ev.line.id = ev.id
        /\ ev.line.kind = "result"

\* C23: once an operation of a session has failed on the transport (end of
\* stream, a write to a closed pipe, a line that is not JSON), the session
\* holds no process, so that a later request is refused before any write
C23_TransportErrorCloses ==
    ev.out \in { "Closed", "BrokenPipe", "JSONDecodeError" } =>
        process[ev.c] = "None"

\* the requests written to session c that have not been resolved: those the
\* child has not read, and those whose response line has not been read
Outstanding(c) ==
    Cardinality({ i \in 1..Len(stdin[c]) : stdin[c][i].id # 0 })
        + Len(stdout[c])

\* C24: a session never has more than one request written and not resolved,
\* and the one it has is the request its caller awaits: the manager writes
\* no request on a session before the previous one has returned
C24_OneRequestInFlight ==
    \A c \in Clients :
        /\ Outstanding(c) <= 1
        /\ Outstanding(c) = 1 => pend[c].id # 0

\* the second session is in its third request, a tool call, which the server
\* has answered and the client has not read
C24_Witness ==
    /\ pend[2].op = "call_tool"
    /\ pend[2].id = 3
    /\ Len(stdout[2]) = 1
    /\ Len(clients) = 2

(***************************************************************************)
(* Properties of sessions that share an event loop                         *)
(***************************************************************************)
\* C25: while session c is inside a request (waiting for the response line,
\* or reading stderr after end-of-stream), the task of another session d is
\* not held up: it can write a request, and it can take the response that
\* has arrived for the request it awaits
C25_BlockedSessionBlocksItself ==
    \A c \in Clients : \A d \in Clients \ {c} :
        pend[c].id # 0 =>
            /\ (pend[d] = NoReq /\ process[d] = "Popen"
                    /\ request_id[d] < MaxId)
                   => ENABLED CallTool(d, <<"t">>, "{k: v}")
            /\ (pend[d].id # 0 /\ stdout[d] # <<>>)
                   => ENABLED ReadResponse(d)

(***************************************************************************)
(* Properties of the catalog and of the children of a manager              *)
(***************************************************************************)
\* C26: get_all_tools holds the tools of a server only while the child of
\* its session runs, and nothing after stop_all
C26_CatalogOnlyWhileConnected ==
    /\ \A i \in 1..Len(clients) :
           child[clients[i][2]] # "alive" =>
               AllToolsFrom(<< clients[i] >>) = <<>>
    /\ (ev.op = "stop_all" /\ ev.out = "ok") => GetAllTools = <<>>

\* C27: however much the server writes to stderr, the client is never
\* waiting for a line on stdout while the server is blocked in a write to
\* the full stderr pipe, so that the response is written and returned
C27_NoStderrDeadlock ==
    \A c \in Clients :
        ~(pend[c].id # 0 /\ stdout[c] = <<>> /\ child[c] = "blocked")

\* C28: when start_all has returned and stop_all then returns, no child that
\* start_all spawned runs any more, whatever the names of the configs (two
\* configs may carry the same name)
C28_NoChildLeftRunning ==
    [][ (StartedAll /\ MgrStopAll /\ ev'.out = "ok") =>
            \A c \in Clients : child[c] # "none" => child'[c] = "exited" ]_vars

(***************************************************************************)
(* Properties of a session without process                                 *)
(***************************************************************************)
\* C29: a request (list_tools, call_tool) or a notification on a session
\* that holds no process, never started or stopped, fails with "not
\* running", writes nothing to a pipe and leaves the request-id counter as
\* it was
C29_NotRunningTouchesNothing ==
    [][ \A c \in Clients :
          (/\ process[c] = "None"
           /\ \/ ListTools(c)
              \/ \E n \in ToolNames, a \in Arguments : CallTool(c, n, a)
              \/ Notify(c))
          => /\ ev'.out = "NotRunning"
             /\ UNCHANGED << stdin, stdout, request_id, sent, wrote, process,
                             child >> ]_vars

\* call_tool was refused on a session that had been started, used for two
\* requests and stopped
C29_Witness ==
    /\ ev.op = "call_tool"
    /\ ev.out = "NotRunning"
    /\ process[1] = "None"
    /\ child[1] = "exited"
    /\ sent[1] = << 1, 2 >>

====
